---------------------------- MODULE Spec2Model ----------------------------
(***************************************************************************)
(* A model of vcr/stubs/__init__.py: the VCRConnection stub that stands in *)
(* for an HTTPConnection, accumulates a request, and at getresponse()      *)
(* either replays a recorded response or forwards to the real connection   *)
(* and records the exchange.                                               *)
(*                                                                         *)
(* Text (URIs, header names, bodies) is a sequence of one-character        *)
(* strings, so that str.lower, str.upper, str.split, str.replace and       *)
(* str.format are computed and not assumed.  Python's None is NoneV for    *)
(* text-valued slots and NoPort for the port slot.  A dict is a sequence   *)
(* of entries [k, v] with pairwise distinct keys, in insertion order.      *)
(*                                                                         *)
(* The cassette (vcr.cassette) and the real connection (http.client) are   *)
(* collaborators outside this file: the answers of can_play_response_for,  *)
(* filter_request and play_response, the live response and a transport     *)
(* fault are inputs of the actions, drawn from small sets.                 *)
(***************************************************************************)
EXTENDS Integers, Sequences, FiniteSets, TLC

VARIABLES
    protocol,       \* _protocol of the class: "http" or "https"
    proxied,        \* self._proxied
    proxied_host,   \* self._proxied_host
    proxied_port,   \* self._proxied_port
    has_request,    \* hasattr(self, '_vcr_request')
    vcr_request,    \* self._vcr_request (meaningful when has_request)
    auto_open,      \* self.auto_open
    real,           \* self.real_connection
    cassette,       \* self.cassette: write_protected, record_mode, _path
    last,           \* the last call on the stub: op, args, outcome, events
    acc,            \* the body calls made since the last successful start
    hdr_in,         \* input of the last transform_proxy_headers application
    hdr_out,        \* its result
    record,         \* a recorded response dict, as the cassette holds it
    resp,           \* the VCRHTTPResponse synthesized from it
    got             \* what read/readline returned since the synthesis

vars == <<protocol, proxied, proxied_host, proxied_port, has_request,
          vcr_request, auto_open, real, cassette, last, acc, hdr_in, hdr_out,
          record, resp, got>>

---------------------------------------------------------------------------
(* Bounds *)

\* The send/endheaders calls followed after one start, where the request
\* accumulator is explored.
MaxCalls == 3
\* The send/endheaders calls followed after one start, where the whole life
\* of a connection is explored.
LifeCalls == 1
\* The entries of a header mapping given to the Header Transform.
MaxEntries == 2

---------------------------------------------------------------------------
(* Text *)

NoneV == <<"None">>
NoPort == -1

Truthy(s) == s # NoneV /\ s # <<>>

LowerChar(c) ==
    CASE c = "A" -> "a" [] c = "C" -> "c" [] c = "E" -> "e" [] c = "P" -> "p"
      [] c = "R" -> "r" [] c = "T" -> "t" [] c = "X" -> "x" [] c = "O" -> "o"
      [] c = "N" -> "n" [] c = "D" -> "d" [] c = "I" -> "i" [] c = "G" -> "g"
      [] c = "S" -> "s" [] c = "F" -> "f" [] c = "Y" -> "y" [] c = "H" -> "h"
      [] c = "U" -> "u" [] c = "Z" -> "z"
      [] OTHER -> c

UpperChar(c) ==
    CASE c = "a" -> "A" [] c = "c" -> "C" [] c = "e" -> "E" [] c = "p" -> "P"
      [] c = "r" -> "R" [] c = "t" -> "T" [] c = "x" -> "X" [] c = "o" -> "O"
      [] c = "n" -> "N" [] c = "d" -> "D" [] c = "i" -> "I" [] c = "g" -> "G"
      [] c = "s" -> "S" [] c = "f" -> "F" [] c = "y" -> "Y" [] c = "h" -> "H"
      [] c = "u" -> "U" [] c = "z" -> "Z"
      [] OTHER -> c

Lower(s) == [i \in DOMAIN s |-> LowerChar(s[i])]
Upper(s) == [i \in DOMAIN s |-> UpperChar(s[i])]

\* The 1-based positions of the separator character in s.
SepPositions(s, sep) == {i \in DOMAIN s : s[i] = sep}

\* s.split(sep)[1]: the piece between the first and the second separator
\* (or the end).  Only evaluated when s holds a separator.
SplitSecond(s, sep) ==
    LET ps == SepPositions(s, sep)
        p1 == CHOOSE i \in ps : \A j \in ps : i <= j
        rest == {i \in ps : i > p1}
        p2 == IF rest = {} THEN Len(s) + 1
              ELSE CHOOSE i \in rest : \A j \in rest : i <= j
    IN SubSeq(s, p1 + 1, p2 - 1)

\* Whether pat stands in s at position i.
OccursAt(s, pat, i) ==
    /\ i >= 1
    /\ i + Len(pat) - 1 <= Len(s)
    /\ SubSeq(s, i, i + Len(pat) - 1) = pat

\* s.replace(pat, '', 1): the leftmost occurrence of pat, wherever it
\* stands, is cut out.
ReplaceFirst(s, pat) ==
    LET occ == {i \in 1..(Len(s) + 1) : OccursAt(s, pat, i)}
    IN IF occ = {} THEN s
       ELSE LET i == CHOOSE k \in occ : \A j \in occ : k <= j
            IN SubSeq(s, 1, i - 1) \o SubSeq(s, i + Len(pat), Len(s))

DigitChar(d) ==
    CASE d = 0 -> "0" [] d = 1 -> "1" [] d = 2 -> "2" [] d = 3 -> "3"
      [] d = 4 -> "4" [] d = 5 -> "5" [] d = 6 -> "6" [] d = 7 -> "7"
      [] d = 8 -> "8" [] OTHER -> "9"

RECURSIVE Decimal(_)
Decimal(n) ==
    IF n < 10 THEN <<DigitChar(n)>>
    ELSE Decimal(n \div 10) \o <<DigitChar(n % 10)>>

\* '{0}'.format(port) for an int or None.
FormatPort(port) ==
    IF port = NoPort THEN <<"N", "o", "n", "e">> ELSE Decimal(port)

\* '{0}'.format(self._protocol)
ProtocolText(p) ==
    IF p = "https" THEN <<"h", "t", "t", "p", "s">> ELSE <<"h", "t", "t", "p">>

---------------------------------------------------------------------------
(* Dicts *)

EmptyDict == <<>>

Keys(d) == {d[i].k : i \in DOMAIN d}

HasKey(d, k) == \E i \in DOMAIN d : d[i].k = k

Get(d, k) == d[CHOOSE i \in DOMAIN d : d[i].k = k].v

\* d[k] = v
DictSet(d, k, v) ==
    IF HasKey(d, k)
    THEN [i \in DOMAIN d |-> IF d[i].k = k THEN [k |-> k, v |-> v] ELSE d[i]]
    ELSE Append(d, [k |-> k, v |-> v])

\* del d[k]
DictDel(d, k) == SelectSeq(d, LAMBDA e : e.k # k)

\* d.update(e)
RECURSIVE DictUpdate(_, _)
DictUpdate(d, e) ==
    IF e = <<>> THEN d
    ELSE DictUpdate(DictSet(d, Head(e).k, Head(e).v), Tail(e))

IsDict(d) == \A i, j \in DOMAIN d : d[i].k = d[j].k => i = j

---------------------------------------------------------------------------
(* Header names and values *)

ProxyConnection == <<"p","r","o","x","y","-","c","o","n","n","e","c","t","i","o","n">>
ProxyAuthorization ==
    <<"p","r","o","x","y","-","a","u","t","h","o","r","i","z","a","t","i","o","n">>
TransferEncodingUpper ==
    <<"T","R","A","N","S","F","E","R","-","E","N","C","O","D","I","N","G">>

\* for key, values in header_list.items(): ... (one iteration)
TransformEntry(filtered_headers, e) ==
    IF Lower(e.k) = ProxyConnection
    THEN DictSet(filtered_headers, SplitSecond(e.k, "-"), e.v)
    ELSE IF Lower(e.k) # ProxyAuthorization
         THEN DictSet(filtered_headers, e.k, e.v)
         ELSE filtered_headers

RECURSIVE TransformLoop(_, _)
TransformLoop(filtered_headers, rest) ==
    IF rest = <<>> THEN filtered_headers
    ELSE TransformLoop(TransformEntry(filtered_headers, Head(rest)), Tail(rest))

transform_proxy_headers(header_list) == TransformLoop(EmptyDict, header_list)

\* for v in values: header_string += key + b":" + v + b"\r\n", per entry in
\* order; compat.get_httpmessage reads the lines back as (key, value) items.
RECURSIVE HeaderLines(_)
HeaderLines(d) ==
    IF d = <<>> THEN <<>>
    ELSE [i \in DOMAIN Head(d).v |-> <<Head(d).k, Head(d).v[i]>>]
         \o HeaderLines(Tail(d))

parse_headers(header_list) == HeaderLines(transform_proxy_headers(header_list))

\* for key, values in compat.get_headers(response.msg):
\*     out.setdefault(key, []); out[key].extend(values)
RECURSIVE SerializeLoop(_, _)
SerializeLoop(out, items) ==
    IF items = <<>> THEN out
    ELSE LET key == Head(items)[1]
             values == Head(items)[2]
             out1 == IF HasKey(out, key) THEN out ELSE DictSet(out, key, <<>>)
         IN SerializeLoop(DictSet(out1, key, Get(out1, key) \o values),
                          Tail(items))

serialize_headers(response) ==
    transform_proxy_headers(SerializeLoop(EmptyDict, response.msg))

\* te_key = [h for h in headers.keys() if h.upper() == 'TRANSFER-ENCODING']
te_key(headers) ==
    LET ks == [i \in DOMAIN headers |-> headers[i].k]
    IN SelectSeq(ks, LAMBDA h : Upper(h) = TransferEncodingUpper)

\* if te_key: del headers[te_key[0]]   (on the record's own dict)
StripTransferEncoding(headers) ==
    IF te_key(headers) # <<>> THEN DictDel(headers, te_key(headers)[1])
    ELSE headers

\* VCRHTTPResponse.__init__: the response object.  recorded_response is the
\* record itself (held by reference), as __init__ leaves it.
VCRHTTPResponse(recorded_response) ==
    LET headers == StripTransferEncoding(recorded_response.headers)
    IN [recorded_response |-> [recorded_response EXCEPT !.headers = headers],
        reason   |-> recorded_response.status.message,
        status   |-> recorded_response.status.code,
        code     |-> recorded_response.status.code,
        content  |-> recorded_response.body.string,
        pos      |-> 0,
        closed   |-> FALSE,
        headers  |-> parse_headers(headers)]

---------------------------------------------------------------------------
(* URIs *)

SchemeSep == <<":", "/", "/">>

DefaultPort(p) == IF p = "https" THEN 443 ELSE 80

\* _port_postfix reading the real connection's port also when proxied.
_port_postfix_RealPort ==
    IF real.port # DefaultPort(protocol) THEN <<":">> \o FormatPort(real.port)
    ELSE <<>>

_port_postfix ==
    LET default_port == DefaultPort(protocol)
        port == IF proxied THEN proxied_port ELSE real.port
    IN IF port # default_port THEN <<":">> \o FormatPort(port) ELSE <<>>

\* The branch of _uri that raises AssertionError.
UriFaults == proxied /\ ~Truthy(proxied_host) /\ protocol # "http"

\* _uri(url), where it returns.
_uri(url) ==
    IF proxied /\ ~Truthy(proxied_host)
    THEN url
    ELSE ProtocolText(protocol) \o SchemeSep
         \o (IF proxied THEN proxied_host ELSE real.host)
         \o _port_postfix \o url

_url(uri) ==
    LET prefix == ProtocolText(protocol) \o SchemeSep \o real.host
                  \o _port_postfix
    IN ReplaceFirst(uri, prefix)

---------------------------------------------------------------------------
(* The values the calls are made with *)

ApiTest == <<"a","p","i",".","t","e","s","t">>
ExampleCom == <<"e","x","a","m","p","l","e",".","c","o","m">>
FooPath == <<"/","f","o","o","?","x","=","1">>
BarPath == <<"/","b","a","r">>
\* The absolute-form target a client sends to an http proxy.
AbsUrl == ProtocolText("http") \o SchemeSep \o ApiTest \o FooPath

Accept == <<"a","c","c","e","p","t">>
Connection == <<"c","o","n","n","e","c","t","i","o","n">>
ConnectionCap == <<"C","o","n","n","e","c","t","i","o","n">>
ProxyConnectionCap == <<"P","r","o","x","y","-","C","o","n","n","e","c","t","i","o","n">>
ProxyConnectionMixed == <<"P","R","O","X","Y","-","c","o","n","n","e","c","t","i","o","n">>
ProxyAuthorizationCap ==
    <<"P","r","o","x","y","-","A","u","t","h","o","r","i","z","a","t","i","o","n">>
TransferEncoding ==
    <<"t","r","a","n","s","f","e","r","-","e","n","c","o","d","i","n","g">>
TransferEncodingCap ==
    <<"T","r","a","n","s","f","e","r","-","E","n","c","o","d","i","n","g">>
ContentType == <<"C","o","n","t","e","n","t","-","T","y","p","e">>

Entry(k, v) == [k |-> k, v |-> v]

Methods == {"GET"}
RealHosts == {ApiTest}
RealPorts == {80, 443, 8080}
TunnelHosts == {ExampleCom, ApiTest}
\* set_tunnel's port argument; NoPort is the default, port=None.
TunnelPorts == {NoPort, 443, 9443}
\* request's body argument; NoneV is the default, body=None.
Bodies == {NoneV, <<>>, <<"a">>}
\* request's headers argument; the default headers=None and {} are both
\* falsy, and "headers or {}" makes either the empty dict.
HeaderArgs ==
    { EmptyDict,
      <<Entry(ProxyAuthorizationCap, <<"s">>), Entry(ProxyConnectionCap, <<"k">>)>> }
PutNames == {Accept, ProxyConnection, ProxyAuthorization}
PutValues == {<<"x">>, <<"y", "z">>}
Chunks == {<<"b">>, <<>>}
\* endheaders' message_body argument; NoneV is the default.
EndBodies == {NoneV, <<"c">>}

\* A recorded response as the cassette stores it.
Record(code, message, headers, string) ==
    [status |-> [code |-> code, message |-> message],
     headers |-> headers,
     body |-> [string |-> string]]

NoRecord == Record(0, "", EmptyDict, <<>>)

\* What cassette.play_response may return.
PlayedRecords ==
    { Record(200, "OK", <<Entry(ContentType, <<"t">>)>>, <<"a", "b">>),
      Record(200, "OK", <<Entry(TransferEncodingCap, <<"chunked">>),
                          Entry(ContentType, <<"t">>)>>, <<"a", "b">>),
      Record(404, "Not Found", <<Entry(ProxyConnectionCap, <<"k">>)>>, <<>>) }

\* A live response of the real connection: status, reason, the (key, values)
\* items compat.get_headers yields for its msg, and what read() returns.
Live(status, reason, msg, data) ==
    [status |-> status, reason |-> reason, msg |-> msg, data |-> data]

NoLive == Live(0, "", <<>>, <<>>)

LiveResponses ==
    { Live(200, "OK", << <<ContentType, <<"t">>>> >>, <<"a", "b">>),
      Live(200, "OK", << <<TransferEncodingCap, <<"chunked">>>>,
                         <<ContentType, <<"t">>>> >>, <<"c">>),
      Live(502, "Bad Gateway", << <<ProxyConnectionCap, <<"k">>>>,
                                  <<ContentType, <<"t">>>>,
                                  <<ContentType, <<"u">>>> >>, <<>>) }

\* Where the real connection may raise during the forwarded exchange: in
\* its request, in its getresponse, or in the read of the live response.
Faults == {"none", "request", "getresponse", "read"}

\* The cassettes a stub may be patched with.
Cassettes ==
    { [write_protected |-> TRUE, record_mode |-> "none", path |-> "c.yaml"],
      [write_protected |-> FALSE, record_mode |-> "new_episodes",
       path |-> "c.yaml"] }

---------------------------------------------------------------------------
(* State *)

NoRequest == [method |-> "", uri |-> <<>>, body |-> NoneV, headers |-> EmptyDict]

Request(method, uri, body, headers) ==
    [method |-> method, uri |-> uri, body |-> body, headers |-> headers]

Return(v) == [kind |-> "return", value |-> v]
Raise(exc) == [kind |-> "raise", exc |-> exc]

Call(op, args, out, events) ==
    [op |-> op, args |-> args, out |-> out, events |-> events]

NoAcc == [b0 |-> NoneV, calls |-> <<>>]

\* No response object has been synthesized.
NoResponse == [recorded_response |-> NoRecord]

\* VCRConnection.__init__ and the class attributes.
InitConnection(protocols, flags, ports, cassettes) ==
    /\ protocol \in protocols
    /\ proxied \in flags
    /\ proxied_host = NoneV
    /\ proxied_port = NoPort
    /\ has_request = FALSE
    /\ vcr_request = NoRequest
    /\ auto_open = 1
    /\ \E host \in RealHosts, port \in ports :
          real = [host |-> host, port |-> port, sock |-> FALSE,
                  auto_open |-> 1,
                  tunnel |-> [host |-> NoneV, port |-> NoPort]]
    /\ cassette \in cassettes
    /\ last = Call("__init__", NoneV, Return(NoneV), <<>>)
    /\ acc = NoAcc

\* A connection, with the mapping the Header Transform is applied to.
InitWith(protocols, flags, ports, cassettes, maps) ==
    /\ InitConnection(protocols, flags, ports, cassettes)
    /\ hdr_in \in maps
    /\ hdr_out = EmptyDict
    /\ record = NoRecord
    /\ resp = NoResponse
    /\ got = <<>>

Config == <<protocol, proxied, cassette>>
Tunnel == <<proxied_host, proxied_port>>
Pure == <<hdr_in, hdr_out, record, resp, got>>

---------------------------------------------------------------------------
(* The request accumulator *)

request(method, url, body, headers) ==
    LET args == [method |-> method, url |-> url, body |-> body,
                 headers |-> headers]
    IN /\ IF UriFaults
          THEN /\ last' = Call("request", args, Raise("AssertionError"), <<>>)
               /\ UNCHANGED <<has_request, vcr_request, acc>>
          ELSE /\ vcr_request' =
                     Request(method, _uri(url), body,
                             transform_proxy_headers(headers))
               /\ has_request' = TRUE
               /\ acc' = [b0 |-> body, calls |-> <<>>]
               /\ last' = Call("request", args, Return(NoneV), <<>>)
       /\ UNCHANGED <<Config, Tunnel, Pure, auto_open, real>>

putrequest(method, url) ==
    LET args == [method |-> method, url |-> url]
    IN /\ IF UriFaults
          THEN /\ last' = Call("putrequest", args, Raise("AssertionError"), <<>>)
               /\ UNCHANGED <<has_request, vcr_request, acc>>
          ELSE /\ vcr_request' = Request(method, _uri(url), <<>>, EmptyDict)
               /\ has_request' = TRUE
               /\ acc' = [b0 |-> <<>>, calls |-> <<>>]
               /\ last' = Call("putrequest", args, Return(NoneV), <<>>)
       /\ UNCHANGED <<Config, Tunnel, Pure, auto_open, real>>

\* self._vcr_request.headers.update(transform_proxy_headers({header: values}))
PutheaderHeaders(headers, header, values) ==
    DictUpdate(headers, transform_proxy_headers(<<Entry(header, values)>>))

\* putheader starting a new request that holds the header alone.
putheader_Restarts(header, values) ==
    /\ vcr_request' =
          Request("", <<>>, <<>>, PutheaderHeaders(EmptyDict, header, values))
    /\ has_request' = TRUE
    /\ last' = Call("putheader", [header |-> header, values |-> values],
                    Return(NoneV), <<>>)
    /\ UNCHANGED <<Config, Tunnel, Pure, auto_open, real, acc>>

putheader(header, values) ==
    LET args == [header |-> header, values |-> values]
    IN /\ IF ~has_request
          THEN /\ last' = Call("putheader", args, Raise("AttributeError"), <<>>)
               /\ UNCHANGED vcr_request
          ELSE /\ vcr_request' =
                     [vcr_request EXCEPT
                        !.headers = PutheaderHeaders(@, header, values)]
               /\ last' = Call("putheader", args, Return(NoneV), <<>>)
       /\ UNCHANGED <<Config, Tunnel, Pure, auto_open, real, has_request, acc>>

\* SendBody replacing the body by the chunk.
SendBody_Replaces(body, data) == data

\* self._vcr_request.body + data if self._vcr_request.body else data
SendBody(body, data) == IF Truthy(body) THEN body \o data ELSE data

send(data) ==
    LET args == [data |-> data]
    IN /\ IF ~has_request
          THEN /\ last' = Call("send", args, Raise("AttributeError"), <<>>)
               /\ UNCHANGED <<vcr_request, acc>>
          ELSE /\ vcr_request' = [vcr_request EXCEPT !.body = SendBody(@, data)]
               /\ acc' = [acc EXCEPT !.calls = Append(@, <<"send", data>>)]
               /\ last' = Call("send", args, Return(NoneV), <<>>)
       /\ UNCHANGED <<Config, Tunnel, Pure, auto_open, real, has_request>>

\* if message_body is not None: self._vcr_request.body = message_body
EndheadersBody(body, message_body) ==
    IF message_body # NoneV THEN message_body ELSE body

\* Whether endheaders() reads self._vcr_request at all.
EndheadersReadsRequest(message_body) == message_body # NoneV

endheaders(message_body) ==
    LET args == [message_body |-> message_body]
    IN /\ IF EndheadersReadsRequest(message_body) /\ ~has_request
          THEN /\ last' = Call("endheaders", args, Raise("AttributeError"), <<>>)
               /\ UNCHANGED <<vcr_request, acc>>
          ELSE /\ vcr_request' =
                     IF message_body # NoneV
                     THEN [vcr_request EXCEPT
                             !.body = EndheadersBody(@, message_body)]
                     ELSE vcr_request
               /\ acc' = IF has_request
                         THEN [acc EXCEPT
                                 !.calls = Append(@, <<"endheaders", message_body>>)]
                         ELSE acc
               /\ last' = Call("endheaders", args, Return(NoneV), <<>>)
       /\ UNCHANGED <<Config, Tunnel, Pure, auto_open, real, has_request>>

---------------------------------------------------------------------------
(* The connection proxy *)

\* RecordOf with the body left unread.
RecordOf_Unread(response) ==
    Record(response.status, response.reason, serialize_headers(response), <<>>)

\* The response dict getresponse() builds from the live response.
RecordOf(response) ==
    Record(response.status, response.reason, serialize_headers(response),
           response.data)

\* The call getresponse() makes on the real connection.
RealRequestCall ==
    [call |-> "request",
     method |-> vcr_request.method,
     url |-> _url(vcr_request.uri),
     body |-> vcr_request.body,
     headers |-> vcr_request.headers]

RealCall(name) == [call |-> name]

AppendCall(req, response) ==
    [call |-> "append", request |-> req, response |-> response]

PlayCall(req) == [call |-> "play", request |-> req]

\* http.client: a connection with no socket opens one on request() when
\* auto_open is set, and raises NotConnected otherwise.
CannotOpen == ~real.sock /\ real.auto_open = 0

\* The cannot-record fault, with what its message names.
CannotOverwrite ==
    [kind |-> "raise", exc |-> "CannotOverwriteExistingCassetteException",
     request |-> vcr_request, path |-> cassette.path,
     record_mode |-> cassette.record_mode]

\* MustNotRecord with the check left out.
MustNotRecord_Never(filter) == FALSE

\* if self.cassette.write_protected and self.cassette.filter_request(...)
MustNotRecord(filter) == cassette.write_protected /\ filter

\* AutoOpenAfterLive clearing auto_open on every connection.
AutoOpenAfterLive_Always(old) == 0

\* if self._proxied: self.auto_open = 0
AutoOpenAfterLive(old) == IF proxied THEN 0 ELSE old

\* GetresponsePath without the cassette lookup.
GetresponsePath_NoReplay(can_play, filter) ==
    IF ~has_request THEN "no_request"
    ELSE IF MustNotRecord(filter) THEN "cannot_record"
    ELSE "forward"

\* The branch getresponse() takes: the missing request, the replay, the
\* cannot-record fault, or the forwarded exchange.
GetresponsePath(can_play, filter) ==
    IF ~has_request THEN "no_request"
    ELSE IF can_play THEN "replay"
    ELSE IF MustNotRecord(filter) THEN "cannot_record"
    ELSE "forward"

\* ForwardEvents with the request sent again after a fault.
ForwardEvents_Retries(fault, live) ==
    IF fault = "none"
    THEN <<RealRequestCall, RealCall("getresponse"),
           AppendCall(vcr_request, RecordOf(live))>>
    ELSE <<RealRequestCall, RealRequestCall>>

\* The calls getresponse() makes when it forwards: real_connection.request,
\* real_connection.getresponse, cassette.append, up to the one that raises.
ForwardEvents(fault, live) ==
    IF fault = "request" THEN <<RealRequestCall>>
    ELSE IF fault \in {"getresponse", "read"}
    THEN <<RealRequestCall, RealCall("getresponse")>>
    ELSE <<RealRequestCall, RealCall("getresponse"),
           AppendCall(vcr_request, RecordOf(live))>>

getresponse(can_play, filter, played, response, fault) ==
    LET can_play_v == has_request /\ can_play
        filter_v == has_request /\ ~can_play_v /\ cassette.write_protected
                    /\ filter
        path == GetresponsePath(can_play_v, filter_v)
        fault_v == IF path # "forward" THEN "none"
                   ELSE IF CannotOpen THEN "request" ELSE fault
        live == IF path = "forward" /\ fault_v = "none" THEN response
                ELSE NoLive
        args == [can_play |-> can_play_v, filter |-> filter_v,
                 played |-> IF can_play_v THEN played ELSE NoRecord,
                 live |-> live, fault |-> fault_v]
    IN /\ IF path = "no_request"
          THEN /\ last' = Call("getresponse", args, Raise("AttributeError"), <<>>)
               /\ UNCHANGED <<auto_open, real>>
          ELSE IF path = "replay"
          THEN /\ last' = Call("getresponse", args,
                               Return(VCRHTTPResponse(args.played)),
                               <<PlayCall(vcr_request)>>)
               /\ UNCHANGED <<auto_open, real>>
          ELSE IF path = "cannot_record"
          THEN /\ last' = Call("getresponse", args, CannotOverwrite, <<>>)
               /\ UNCHANGED <<auto_open, real>>
          ELSE IF fault_v = "request"
          THEN /\ last' = Call("getresponse", args, Raise("TransportFault"),
                               ForwardEvents(fault_v, live))
               /\ real' = [real EXCEPT !.sock = FALSE]
               /\ UNCHANGED auto_open
          ELSE IF fault_v = "getresponse"
          THEN /\ last' = Call("getresponse", args, Raise("TransportFault"),
                               ForwardEvents(fault_v, live))
               /\ real' = [real EXCEPT !.sock = FALSE]
               /\ UNCHANGED auto_open
          ELSE IF fault_v = "read"
          THEN /\ last' = Call("getresponse", args, Raise("TransportFault"),
                               ForwardEvents(fault_v, live))
               /\ auto_open' = AutoOpenAfterLive(auto_open)
               /\ real' = [real EXCEPT !.sock = FALSE,
                                       !.auto_open = AutoOpenAfterLive(@)]
          ELSE /\ last' = Call("getresponse", args,
                               Return(VCRHTTPResponse(RecordOf(live))),
                               ForwardEvents(fault_v, live))
               /\ auto_open' = AutoOpenAfterLive(auto_open)
               /\ real' = [real EXCEPT !.sock = TRUE,
                                       !.auto_open = AutoOpenAfterLive(@)]
       /\ UNCHANGED <<Config, Tunnel, Pure, has_request, vcr_request, acc>>

\* ConnectSkips without the write_protected check.
ConnectSkips_NoWriteProtect(can_play) == has_request /\ can_play

\* ConnectSkips without the recorded-response check.
ConnectSkips_NoCanPlay(can_play) == cassette.write_protected

\* hasattr(self, '_vcr_request') and can_play_response_for(self._vcr_request),
\* then self.cassette.write_protected: whether connect() returns early.
ConnectSkips(can_play) ==
    \/ has_request /\ can_play
    \/ cassette.write_protected

connect(can_play, fault) ==
    LET can_play_v == has_request /\ can_play
        fault_v == IF ConnectSkips(can_play_v) THEN "none" ELSE fault
        args == [can_play |-> can_play_v, fault |-> fault_v]
    IN /\ IF ConnectSkips(can_play_v)
          THEN /\ last' = Call("connect", args, Return(NoneV), <<>>)
               /\ UNCHANGED real
          ELSE IF fault_v # "none"
          THEN /\ last' = Call("connect", args, Raise("TransportFault"),
                               <<RealCall("connect")>>)
               /\ real' = [real EXCEPT !.sock = FALSE]
          ELSE /\ last' = Call("connect", args, Return(NoneV),
                               <<RealCall("connect")>>)
               /\ real' = [real EXCEPT !.sock = TRUE]
       /\ UNCHANGED <<Config, Tunnel, Pure, has_request, vcr_request, acc,
                      auto_open>>

\* close leaving the real connection alone.
close_NoRealClose ==
    /\ last' = Call("close", NoneV, Return(NoneV), <<>>)
    /\ UNCHANGED <<Config, Tunnel, Pure, has_request, vcr_request, acc,
                   auto_open, real>>

close ==
    /\ last' = Call("close", NoneV, Return(NoneV), <<RealCall("close")>>)
    /\ real' = [real EXCEPT !.sock = FALSE]
    /\ UNCHANGED <<Config, Tunnel, Pure, has_request, vcr_request, acc,
                   auto_open>>

\* TunnelPort keeping the port as given.
TunnelPort_AsGiven(port) == port

\* port or {'https': 443, 'http': 80}[self._protocol]
TunnelPort(port) ==
    IF port = NoPort \/ port = 0 THEN DefaultPort(protocol) ELSE port

\* http.client: set_tunnel on a connection whose socket is open may raise
\* ("Can't set up tunnel for established connection").
TunnelRefused(fault) == real.sock /\ fault = "set_tunnel"

set_tunnel(host, port, fault) ==
    LET fault_v == IF proxied /\ TunnelRefused(fault) THEN "set_tunnel"
                   ELSE "none"
        args == [host |-> host, port |-> port, fault |-> fault_v]
        forwarded == <<[call |-> "set_tunnel", host |-> host, port |-> port]>>
    IN /\ IF ~proxied
          THEN /\ last' = Call("set_tunnel", args, Raise("AssertionError"), <<>>)
               /\ UNCHANGED <<Tunnel, real>>
          ELSE /\ proxied_host' = host
               /\ proxied_port' = TunnelPort(port)
               /\ IF fault_v = "set_tunnel"
                  THEN /\ last' = Call("set_tunnel", args,
                                       Raise("RuntimeError"), forwarded)
                       /\ UNCHANGED real
                  ELSE /\ real' = [real EXCEPT
                                     !.tunnel = [host |-> host, port |-> port]]
                       /\ last' = Call("set_tunnel", args, Return(NoneV),
                                       forwarded)
       /\ UNCHANGED <<Config, Pure, has_request, vcr_request, acc, auto_open>>

---------------------------------------------------------------------------
(* The synthesized response *)

Conn == <<Config, Tunnel, has_request, vcr_request, acc, auto_open, real,
          hdr_in, hdr_out>>

\* VCRHTTPResponse(recorded_response), on a record the cassette holds: the
\* response keeps a reference to the record, and what __init__ deletes from
\* its headers is deleted from the record.
Synthesize ==
    /\ resp' = VCRHTTPResponse(record)
    /\ record' = resp'.recorded_response
    /\ got' = <<>>
    /\ last' = Call("VCRHTTPResponse", NoneV, Return(NoneV), <<>>)
    /\ UNCHANGED Conn

\* read's amt argument; NoAmt is the default, read().
NoAmt == -1

\* BytesIO.read(amt): the bytes from the position on, amt of them at most.
ReadEnd(content, pos, amt) ==
    IF amt = NoAmt \/ pos + amt > Len(content) THEN Len(content) ELSE pos + amt

\* BytesIO.readline(): through the next newline, or to the end.
ReadlineEnd(content, pos) ==
    LET nl == {i \in (pos + 1)..Len(content) : content[i] = "\n"}
    IN IF nl = {} THEN Len(content)
       ELSE CHOOSE i \in nl : \A j \in nl : i <= j

read(amt) ==
    LET end == ReadEnd(resp.content, resp.pos, amt)
        data == SubSeq(resp.content, resp.pos + 1, end)
    IN /\ resp # NoResponse
       /\ resp' = [resp EXCEPT !.pos = end]
       /\ got' = got \o data
       /\ last' = Call("read", [amt |-> amt], Return(data), <<>>)
       /\ UNCHANGED <<Conn, record>>

readline ==
    LET end == ReadlineEnd(resp.content, resp.pos)
        data == SubSeq(resp.content, resp.pos + 1, end)
    IN /\ resp # NoResponse
       /\ resp' = [resp EXCEPT !.pos = end]
       /\ got' = got \o data
       /\ last' = Call("readline", NoneV, Return(data), <<>>)
       /\ UNCHANGED <<Conn, record>>

\* VCRHTTPResponse.close
response_close ==
    /\ resp # NoResponse
    /\ resp' = [resp EXCEPT !.closed = TRUE]
    /\ last' = Call("response.close", NoneV, Return(TRUE), <<>>)
    /\ UNCHANGED <<Conn, record, got>>

info ==
    /\ resp # NoResponse
    /\ last' = Call("info", NoneV,
                    Return(parse_headers(resp.recorded_response.headers)), <<>>)
    /\ UNCHANGED <<Conn, record, resp, got>>

\* list(compat.get_header_items(parse_headers(...))): the (key, value) pairs.
GetheadersItems(r) == parse_headers(r.recorded_response.headers)

getheaders ==
    /\ resp # NoResponse
    /\ last' = Call("getheaders", NoneV, Return(GetheadersItems(resp)), <<>>)
    /\ UNCHANGED <<Conn, record, resp, got>>

\* ', '.join(values): the values with the separator between them (a header
\* value is one piece of text).
RECURSIVE JoinComma(_)
JoinComma(values) ==
    IF Len(values) = 1 THEN <<Head(values)>>
    ELSE <<Head(values), ", ">> \o JoinComma(Tail(values))

\* [v for (k, v) in self.getheaders() if k.lower() == header.lower()]
GetheaderValues(r, header) ==
    LET items == SelectSeq(GetheadersItems(r),
                           LAMBDA kv : Lower(kv[1]) = Lower(header))
    IN [i \in DOMAIN items |-> items[i][2]]

getheader(header, default) ==
    LET values == GetheaderValues(resp, header)
    IN /\ resp # NoResponse
       /\ last' = Call("getheader", [header |-> header, default |-> default],
                       Return(IF values # <<>> THEN JoinComma(values)
                              ELSE default), <<>>)
       /\ UNCHANGED <<Conn, record, resp, got>>

\* The body of a recorded response that holds a newline.
TwoLines == <<"a", "\n", "b">>

\* The records a cassette may hold.
Records ==
    { Record(200, "OK", <<Entry(ContentType, <<"t">>)>>, TwoLines),
      Record(200, "OK", <<Entry(TransferEncodingCap, <<"chunked">>),
                          Entry(ContentType, <<"t">>)>>, TwoLines),
      Record(200, "OK", <<Entry(TransferEncodingCap, <<"chunked">>),
                          Entry(TransferEncoding, <<"chunked">>)>>, <<"a">>),
      Record(404, "Not Found", <<Entry(ProxyConnectionCap, <<"k">>),
                                 Entry(ContentType, <<"t">>),
                                 Entry(Accept, <<"x", "y">>)>>, <<>>) }

InitResp ==
    /\ InitConnection({"http"}, {FALSE}, {80},
                      {c \in Cassettes : c.write_protected})
    /\ hdr_in = EmptyDict
    /\ hdr_out = EmptyDict
    /\ record \in Records
    /\ resp = NoResponse
    /\ got = <<>>

NextResp ==
    \/ Synthesize
    \/ \E amt \in {NoAmt, 1} : read(amt)
    \/ readline
    \/ response_close
    \/ info
    \/ getheaders
    \/ \E h \in {TransferEncoding, ContentType, Accept} : getheader(h, NoneV)

SpecResp == InitResp /\ [][NextResp]_vars

---------------------------------------------------------------------------
(* The life of one connection proxy *)

\* The caller has made fewer than n send/endheaders calls since the start.
CanCall(n) == ~has_request \/ Len(acc.calls) < n

Next ==
    \/ \E h \in HeaderArgs : request("GET", FooPath, <<"a">>, h)
    \/ putrequest("GET", FooPath)
    \/ putheader(Accept, <<"x">>)
    \/ CanCall(LifeCalls) /\ send(<<"b">>)
    \/ \E b \in EndBodies : CanCall(LifeCalls) /\ endheaders(b)
    \/ \E r \in PlayedRecords : getresponse(TRUE, FALSE, r, NoLive, "none")
    \/ \E f \in BOOLEAN, l \in LiveResponses :
          getresponse(FALSE, f, NoRecord, l, "none")
    \/ \E f \in BOOLEAN, flt \in Faults \ {"none"} :
          getresponse(FALSE, f, NoRecord, NoLive, flt)
    \/ \E cp \in BOOLEAN, flt \in {"none", "connect"} : connect(cp, flt)
    \/ close
    \/ \E p \in {NoPort, 9443} : set_tunnel(ExampleCom, p, "none")

Spec ==
    InitWith({"http", "https"}, BOOLEAN, {8080}, Cassettes, {EmptyDict})
    /\ [][Next]_vars

---------------------------------------------------------------------------
(* The request accumulator alone *)

NextAcc ==
    \/ \E b \in Bodies, h \in HeaderArgs : request("GET", FooPath, b, h)
    \/ putrequest("GET", FooPath)
    \/ \E n \in PutNames, v \in PutValues : putheader(n, v)
    \/ \E d \in Chunks : CanCall(MaxCalls) /\ send(d)
    \/ \E b \in EndBodies : CanCall(MaxCalls) /\ endheaders(b)

SpecAcc ==
    InitWith({"http"}, {FALSE}, {80}, Cassettes, {EmptyDict}) /\ [][NextAcc]_vars

---------------------------------------------------------------------------
(* URI resolution: every protocol, proxy flag, port and tunnel target *)

Urls == {FooPath, BarPath, AbsUrl}

NextUri ==
    \/ \E u \in Urls : request("GET", u, NoneV, EmptyDict)
    \/ \E u \in Urls : putrequest("GET", u)
    \/ \E h \in TunnelHosts, p \in TunnelPorts : set_tunnel(h, p, "none")

SpecUri ==
    InitWith({"http", "https"}, BOOLEAN, RealPorts, Cassettes, {EmptyDict})
    /\ [][NextUri]_vars

---------------------------------------------------------------------------
(* The inverse mapping: requests resolved, then forwarded *)

\* A path whose query string holds an absolute URI of the real host.
RedirPath ==
    <<"/","r","?","u","=">> \o ProtocolText("https") \o SchemeSep \o ApiTest
    \o <<"/","x">>

ForwardedUrls == {FooPath, AbsUrl, RedirPath}

\* One live response, for the exchanges whose response is of no interest.
PlainLive == Live(200, "OK", << <<ContentType, <<"t">>>> >>, <<"a", "b">>)

NextUrl ==
    \/ \E u \in ForwardedUrls : request("GET", u, NoneV, EmptyDict)
    \/ \E u \in ForwardedUrls : putrequest("GET", u)
    \/ \E h \in TunnelHosts, p \in {NoPort, 9443},
          flt \in {"none", "set_tunnel"} : set_tunnel(h, p, flt)
    \/ getresponse(FALSE, FALSE, NoRecord, PlainLive, "none")

SpecUrl ==
    InitWith({"http", "https"}, BOOLEAN, RealPorts,
             {c \in Cassettes : ~c.write_protected}, {EmptyDict})
    /\ [][NextUrl]_vars

---------------------------------------------------------------------------
(* The Header Transform alone *)

HeaderNames ==
    { Accept, Connection, ConnectionCap, ProxyConnection, ProxyConnectionCap,
      ProxyConnectionMixed, ProxyAuthorization, ProxyAuthorizationCap }
HeaderValues == {<<"a">>, <<"b", "c">>}

RECURSIVE DictsUpTo(_)
DictsUpTo(n) ==
    IF n = 0 THEN {EmptyDict}
    ELSE LET shorter == DictsUpTo(n - 1)
         IN shorter \cup
            { Append(d, Entry(k, v)) :
                d \in {x \in shorter : Len(x) = n - 1},
                k \in HeaderNames, v \in HeaderValues }

\* The header mappings: dicts, so no name twice.
HeaderMaps == {d \in DictsUpTo(MaxEntries) : IsDict(d)}

InitHdr ==
    InitWith({"http"}, {FALSE}, {80}, {c \in Cassettes : c.write_protected},
             HeaderMaps)

\* One application of transform_proxy_headers to a mapping.
Transform ==
    /\ last.op = "__init__"
    /\ hdr_out' = transform_proxy_headers(hdr_in)
    /\ last' = Call("transform_proxy_headers", NoneV, Return(NoneV), <<>>)
    /\ UNCHANGED <<Config, Tunnel, has_request, vcr_request, acc, auto_open,
                   real, hdr_in, record, resp, got>>

SpecHdr == InitHdr /\ [][Transform]_vars

---------------------------------------------------------------------------
(* What the properties below speak of *)

\* The positions of the calls named in names among the events of the last call.
CallsOf(names) == {i \in DOMAIN last.events : last.events[i].call \in names}

\* h without its first entry named transfer-encoding, in any letter case.
WithoutFirstTE(h) ==
    LET at == {i \in DOMAIN h : Lower(h[i].k) = TransferEncoding}
    IN IF at = {} THEN h
       ELSE LET m == CHOOSE i \in at : \A j \in at : i <= j
            IN SubSeq(h, 1, m - 1) \o SubSeq(h, m + 1, Len(h))

\* The values a live response's header items give for key k, in order.
RECURSIVE ValuesFor(_, _)
ValuesFor(msg, k) ==
    IF msg = <<>> THEN <<>>
    ELSE (IF Head(msg)[1] = k THEN Head(msg)[2] ELSE <<>>)
         \o ValuesFor(Tail(msg), k)

\* The live headers as a mapping: one entry per name, in order of first
\* appearance, with all the values observed for it.
Grouped(msg) ==
    LET firsts == SelectSeq([i \in DOMAIN msg |-> i],
                            LAMBDA i : \A j \in 1..(i - 1) : msg[j][1] # msg[i][1])
    IN [n \in DOMAIN firsts |->
          Entry(msg[firsts[n]][1], ValuesFor(msg, msg[firsts[n]][1]))]

\* The last call was getresponse() on a request the cassette can play.
Replaying == last.op = "getresponse" /\ has_request /\ last.args.can_play

\* The last call was getresponse() with can_play false on a cassette that
\* is not write-protected.
Recording ==
    /\ last.op = "getresponse"
    /\ has_request
    /\ ~last.args.can_play
    /\ ~cassette.write_protected

\* The last call was getresponse() with can_play false, write_protected true
\* and filter true.
Refusing ==
    /\ last.op = "getresponse"
    /\ has_request
    /\ ~last.args.can_play
    /\ cassette.write_protected
    /\ last.args.filter

---------------------------------------------------------------------------
(* C1 *)

\* C1 as stated: when can_play is true, getresponse() returns a response
\* carrying exactly the status, headers and body of the played record, and
\* the real connection gets no request and no getresponse and append is not
\* called.
C1_ExactReplay ==
    Replaying =>
        /\ last.out.kind = "return"
        /\ last.out.value.status = last.args.played.status.code
        /\ last.out.value.reason = last.args.played.status.message
        /\ last.out.value.content = last.args.played.body.string
        /\ last.out.value.headers = HeaderLines(last.args.played.headers)
        /\ CallsOf({"request", "getresponse", "connect", "append"}) = {}

\* C1 as amended: the same, but the headers are those of the played record
\* less its first transfer-encoding entry and passed through the Header
\* Transform.
C1_Replay ==
    Replaying =>
        /\ last.out.kind = "return"
        /\ last.out.value.status = last.args.played.status.code
        /\ last.out.value.reason = last.args.played.status.message
        /\ last.out.value.content = last.args.played.body.string
        /\ last.out.value.headers =
              HeaderLines(transform_proxy_headers(
                              WithoutFirstTE(last.args.played.headers)))
        /\ CallsOf({"request", "getresponse", "connect", "append"}) = {}

\* A replay of a record that holds a transfer-encoding header.
C1_Witness ==
    /\ Replaying
    /\ last.out.kind = "return"
    /\ HasKey(last.args.played.headers, TransferEncodingCap)
    /\ last.events = <<PlayCall(vcr_request)>>

---------------------------------------------------------------------------
(* C2 *)

\* What the record path does: one request with the inverse-mapped path and
\* the accumulated body and headers, one getresponse, one append of the
\* record rec, in this order, and then the return.
RecordedExchange(rec) ==
    /\ last.out.kind = "return"
    /\ Len(last.events) = 3
    /\ last.events[1] = [call |-> "request",
                         method |-> vcr_request.method,
                         url |-> _url(vcr_request.uri),
                         body |-> vcr_request.body,
                         headers |-> vcr_request.headers]
    /\ last.events[2] = [call |-> "getresponse"]
    /\ last.events[3] = [call |-> "append", request |-> vcr_request,
                         response |-> rec]
    /\ last.out.value.status = rec.status.code
    /\ last.out.value.reason = rec.status.message
    /\ last.out.value.content = rec.body.string

\* C2 as stated: with can_play false and write_protected false the real
\* connection gets exactly one request then one getresponse, append is
\* called once with the live status, reason, headers and body before the
\* return, and the returned response carries that same data.
C2_ExactRecord ==
    Recording =>
        LET live == last.args.live
            rec == Record(live.status, live.reason, Grouped(live.msg), live.data)
        IN /\ RecordedExchange(rec)
           /\ last.out.value.headers = HeaderLines(rec.headers)

\* C2 as amended: when the real connection raises no fault, the exchange is
\* as stated with the live headers passed through the Header Transform in
\* the appended record, and the returned response carries the record's
\* status, reason and body and its headers less the first transfer-encoding
\* entry.
C2_Record ==
    (Recording /\ last.args.fault = "none") =>
        LET live == last.args.live
            rec == Record(live.status, live.reason,
                          transform_proxy_headers(Grouped(live.msg)), live.data)
        IN /\ RecordedExchange(rec)
           /\ last.out.value.headers = HeaderLines(WithoutFirstTE(rec.headers))

\* A recorded exchange whose live response was chunked.
C2_Witness ==
    /\ Recording
    /\ last.args.fault = "none"
    /\ last.out.kind = "return"
    /\ Len(last.events) = 3
    /\ HasKey(last.events[3].response.headers, TransferEncodingCap)
    /\ vcr_request.body = <<"a", "b">>

---------------------------------------------------------------------------
(* C3 *)

\* C3: with can_play false, write_protected true and filter true,
\* getresponse() raises the cannot-record fault naming the request, the
\* cassette path and the record mode; the real connection gets no request,
\* append is not called and the in-progress request is left unchanged.
C3_CannotRecord ==
    /\ [](Refusing =>
            /\ last.out = [kind |-> "raise",
                           exc |-> "CannotOverwriteExistingCassetteException",
                           request |-> vcr_request,
                           path |-> cassette.path,
                           record_mode |-> cassette.record_mode]
            /\ last.events = <<>>)
    /\ [][(last'.op = "getresponse" /\ has_request /\ last'.args.filter) =>
            /\ vcr_request' = vcr_request
            /\ has_request' = has_request
            /\ real' = real]_vars

\* The cannot-record fault, raised for a request that holds a body.
C3_Witness ==
    /\ Refusing
    /\ last.out.kind = "raise"
    /\ vcr_request.body = <<"a", "b">>

---------------------------------------------------------------------------
(* C4 *)

\* C4 as stated: on a write-protected cassette every unmatched request makes
\* getresponse() fail, whatever the filter predicate answers, and neither
\* connect() nor getresponse() makes the real connection connect or sends
\* it a request.
C4_NeverNetwork ==
    (cassette.write_protected /\ last.op \in {"connect", "getresponse"}) =>
        /\ CallsOf({"connect", "request"}) = {}
        /\ (last.op = "getresponse" /\ has_request /\ ~last.args.can_play)
              => last.out.kind = "raise"

\* C4 as amended: on a write-protected cassette connect() never reaches the
\* real connection, and getresponse() for an unmatched request fails without
\* any real call when the filter predicate accepts the request, and forwards
\* the request to the real connection when the filter predicate rejects it.
C4_WriteProtected ==
    (cassette.write_protected /\ last.op \in {"connect", "getresponse"}) =>
        /\ last.op = "connect" => last.events = <<>>
        /\ (last.op = "getresponse" /\ has_request /\ ~last.args.can_play) =>
              /\ last.args.filter =>
                    (last.out.kind = "raise" /\ last.events = <<>>)
              /\ ~last.args.filter => CallsOf({"request"}) = {1}

\* A request the filter rejects, forwarded from a write-protected cassette.
C4_Witness ==
    /\ cassette.write_protected
    /\ last.op = "getresponse"
    /\ has_request
    /\ ~last.args.can_play
    /\ ~last.args.filter
    /\ last.out.kind = "return"

---------------------------------------------------------------------------
(* C5 *)

\* C5: connect() calls the real connection's connect exactly when the
\* cassette is not write-protected and no in-progress request exists for
\* which can_play is true; otherwise it returns without touching the real
\* connection.  With no request started it raises no usage fault and is
\* decided by write_protected alone.
C5_Connect ==
    /\ [](last.op = "connect" =>
            /\ (last.events = <<[call |-> "connect"]>>)
                  <=> (~cassette.write_protected
                       /\ ~(has_request /\ last.args.can_play))
            /\ last.events # <<[call |-> "connect"]>> =>
                  (last.events = <<>> /\ last.out = Return(NoneV))
            /\ ~has_request =>
                  /\ (last.events # <<>>) <=> ~cassette.write_protected
                  /\ last.out.kind = "raise" =>
                        (last.out.exc = "TransportFault" /\ last.events # <<>>))
    /\ [][(last'.op = "connect" /\ last'.events = <<>>) => real' = real]_vars

\* connect() skipped because a recorded response can be played, on a
\* cassette that would otherwise allow the connection.
C5_Witness ==
    /\ last.op = "connect"
    /\ has_request
    /\ last.args.can_play
    /\ ~cassette.write_protected
    /\ last.events = <<>>

---------------------------------------------------------------------------
(* C6 *)

\* What C6 says of one mapping and its transform, the name connection read
\* in any letter case.
Transformed(in, out) ==
    /\ \A i \in DOMAIN out : Lower(out[i].k) # ProxyAuthorization
    /\ \A i \in DOMAIN in :
          Lower(in[i].k) = ProxyConnection =>
              \E j \in DOMAIN out :
                  /\ Lower(out[j].k) = Connection
                  /\ out[j].v = in[i].v
    /\ \A i \in DOMAIN in :
          Lower(in[i].k) \notin {ProxyConnection, ProxyAuthorization} =>
              \E j \in DOMAIN out : out[j] = in[i]

\* C6: for every header mapping the result holds no
\* proxy-authorization entry, every proxy-connection entry under the name
\* connection with its values, and every other entry as it was; the input
\* is not modified.
C6_EveryMapping ==
    /\ [](last.op = "transform_proxy_headers" =>
            Transformed(hdr_in, hdr_out))
    /\ [][hdr_in' = hdr_in]_vars

---------------------------------------------------------------------------
(* C7 *)

\* C7: two putheader calls in a row with the same name leave the request's
\* entry for that name holding the values of the first call followed by the
\* values of the second (for a name the Header Transform passes through).
C7_PutheaderExtends ==
    [][(/\ last.op = "putheader"
        /\ last.out.kind = "return"
        /\ last'.op = "putheader"
        /\ last'.args.header = last.args.header
        /\ Lower(last.args.header) \notin {ProxyConnection, ProxyAuthorization})
       => /\ HasKey(vcr_request'.headers, last.args.header)
          /\ Get(vcr_request'.headers, last.args.header)
                = last.args.values \o last'.args.values]_vars

---------------------------------------------------------------------------
(* C8 *)

\* C8: with no request started, putheader, send and endheaders
\* (with or without a body) each raise, and there is still no request.
C8_AllRaise ==
    [][(~has_request /\ last'.op \in {"putheader", "send", "endheaders"}) =>
          (last'.out.kind = "raise" /\ ~has_request')]_vars

---------------------------------------------------------------------------
(* C9 *)

\* The body the claim gives after one more call.
BodyAfter(cur, call) ==
    IF call[1] = "send"
    THEN (IF cur = NoneV \/ cur = <<>> THEN call[2] ELSE cur \o call[2])
    ELSE (IF call[2] = NoneV THEN cur ELSE call[2])

RECURSIVE BodyFold(_, _)
BodyFold(cur, calls) ==
    IF calls = <<>> THEN cur
    ELSE BodyFold(BodyAfter(cur, Head(calls)), Tail(calls))

---------------------------------------------------------------------------
(* C10 *)

\* The port as text, spelled out for the ports in use.
PortText(port) ==
    CASE port = 80 -> <<"8", "0">>
      [] port = 443 -> <<"4", "4", "3">>
      [] port = 8080 -> <<"8", "0", "8", "0">>
      [] port = 9443 -> <<"9", "4", "4", "3">>

Started == last.op \in {"request", "putrequest"}

NoTunnel == proxied_host = NoneV

\* The absolute URI the claim gives for a path.
ExpectedUri(path) ==
    LET scheme == IF protocol = "https" THEN <<"h", "t", "t", "p", "s">>
                  ELSE <<"h", "t", "t", "p">>
        host == IF proxied THEN proxied_host ELSE real.host
        port == IF proxied THEN proxied_port ELSE real.port
        default == IF protocol = "https" THEN 443 ELSE 80
        suffix == IF port = default THEN <<>> ELSE <<":">> \o PortText(port)
    IN scheme \o <<":", "/", "/">> \o host \o suffix \o path

\* C10: (a) proxy-aware, no tunnel, http: the path is the URI; (b)
\* proxy-aware, no tunnel, https: a usage fault and no request started; (c)
\* otherwise scheme://host[:port]path with the tunnel host and port when
\* proxy-aware and the real connection's otherwise, the port left out when
\* it is the protocol's default.
C10_Uri ==
    /\ [](Started =>
            IF proxied /\ NoTunnel
            THEN IF protocol = "http"
                 THEN last.out.kind = "return"
                      /\ vcr_request.uri = last.args.url
                 ELSE last.out = Raise("AssertionError")
            ELSE last.out.kind = "return"
                 /\ vcr_request.uri = ExpectedUri(last.args.url))
    /\ [][(last'.op \in {"request", "putrequest"} /\ proxied /\ NoTunnel
           /\ protocol = "https") =>
            (vcr_request' = vcr_request /\ has_request' = has_request)]_vars

\* An https request through a tunnel to example.com:9443.
C10_Witness ==
    /\ Started
    /\ protocol = "https"
    /\ proxied
    /\ proxied_host = ExampleCom
    /\ proxied_port = 9443
    /\ vcr_request.uri =
          <<"h","t","t","p","s",":","/","/">> \o ExampleCom
          \o <<":","9","4","4","3">> \o FooPath

---------------------------------------------------------------------------
(* C11 *)

\* The last call was a getresponse() that sent a request to the real
\* connection.
Forwarded ==
    /\ last.op = "getresponse"
    /\ last.events # <<>>
    /\ last.events[1].call = "request"

\* scheme://host[:port] of the real connection's own host.
RealPrefix == ProtocolText(protocol) \o SchemeSep \o real.host \o _port_postfix

\* uri less the prefix where it begins with it, uri itself otherwise.
StripLeading(uri, prefix) ==
    IF OccursAt(uri, prefix, 1) THEN SubSeq(uri, Len(prefix) + 1, Len(uri))
    ELSE uri

\* C11: the inverse mapping removes the prefix scheme://host[:port] of the
\* real connection's host only where it stands at the left end of the URI,
\* and returns every other URI unchanged, also when the prefix text occurs
\* later inside it; https://api.test/foo?x=1 maps to /foo?x=1 for real host
\* api.test on the default port.
C11_LeadingPrefixOnly ==
    Forwarded =>
        last.events[1].url = StripLeading(vcr_request.uri, RealPrefix)

---------------------------------------------------------------------------
(* C12 *)

\* C12: a recorded response is never mutated: whatever is done with it
\* (synthesizing a response from it, read, readline, close, getheaders,
\* getheader, info), its status, header mapping and body stay as they were.
C12_NeverMutated == [][record' = record]_vars

---------------------------------------------------------------------------
(* C13 *)

\* No item of a header message is named transfer-encoding, in any letter
\* case.
NoTransferEncoding(items) ==
    \A i \in DOMAIN items : Lower(items[i][1]) # TransferEncoding

\* C13: once read to completion, the synthesized response has yielded
\* exactly the recorded bytes, and its headers field and the results of
\* getheaders, getheader and info hold no header named transfer-encoding in
\* any letter case, whatever the record holds.
C13_RoundTrip ==
    resp # NoResponse =>
        /\ resp.pos = Len(resp.content) => got = record.body.string
        /\ NoTransferEncoding(resp.headers)
        /\ last.op \in {"getheaders", "info"} =>
              NoTransferEncoding(last.out.value)
        /\ (last.op = "getheader" /\ Lower(last.args.header) = TransferEncoding)
              => last.out.value = last.args.default

---------------------------------------------------------------------------
(* C14 *)

\* C14: set_tunnel(host, port) on a connection that is not proxy-aware
\* raises a usage fault, leaves the tunnel host and port unset and does not
\* call the real connection's set_tunnel; on a proxy-aware connection it
\* records the host, records the port (443 for https and 80 for http when
\* none is given) and forwards the call to the real connection exactly once.
C14_SetTunnel ==
    [][last'.op = "set_tunnel" =>
         IF ~proxied
         THEN /\ last'.out = Raise("AssertionError")
              /\ proxied_host' = NoneV
              /\ proxied_port' = NoPort
              /\ last'.events = <<>>
              /\ real' = real
         ELSE /\ proxied_host' = last'.args.host
              /\ proxied_port' =
                    IF last'.args.port # NoPort THEN last'.args.port
                    ELSE IF protocol = "https" THEN 443 ELSE 80
              /\ last'.events = <<[call |-> "set_tunnel",
                                   host |-> last'.args.host,
                                   port |-> last'.args.port]>>]_vars

\* A tunnel to example.com set up with no port on an https connection.
C14_Witness ==
    /\ last.op = "set_tunnel"
    /\ last.out.kind = "return"
    /\ protocol = "https"
    /\ last.args.port = NoPort
    /\ proxied_host = ExampleCom
    /\ proxied_port = 443
    /\ real.tunnel = [host |-> ExampleCom, port |-> NoPort]

---------------------------------------------------------------------------
(* C15 *)

\* The calls the next call makes on the real connection among names.
NextCallsOf(names) ==
    {i \in DOMAIN last'.events : last'.events[i].call \in names}

\* What close() does, from any state.
ClosesReal ==
    last'.op = "close" =>
        /\ last' = Call("close", NoneV, Return(NoneV), <<RealCall("close")>>)
        /\ ~real'.sock

\* C15 as stated, for the call that follows a close(): closed is terminal,
\* so the call after close() never connects the real connection or sends it
\* a request; close() itself, from any state and repeatedly, closes the real
\* connection.
C15_ClosedTerminal ==
    [][/\ ClosesReal
       /\ last.op = "close" => NextCallsOf({"connect", "request"}) = {}]_vars

\* C15 as amended: close(), from any state and repeatedly, closes the real
\* connection and changes nothing else, and it is not terminal: the call
\* after it finds the in-progress request kept, a connect() connects the real
\* connection under the same conditions as before, and a getresponse() on the
\* record path calls the real connection's request again.
C15_Close ==
    [][/\ ClosesReal
       /\ last'.op = "close" =>
             /\ vcr_request' = vcr_request
             /\ has_request' = has_request
             /\ auto_open' = auto_open
             /\ <<proxied_host', proxied_port'>> = <<proxied_host, proxied_port>>
       /\ (last.op = "close" /\ last'.op = "connect") =>
             ((NextCallsOf({"connect"}) = {1})
                 <=> (~cassette.write_protected
                      /\ ~(has_request /\ last'.args.can_play)))
       /\ (last.op = "close" /\ last'.op = "getresponse" /\ has_request
           /\ ~last'.args.can_play /\ ~last'.args.filter) =>
             NextCallsOf({"request"}) = {1}]_vars

\* close() on a proxy-aware connection that holds a request and has
\* completed a live exchange.
C15_Witness ==
    /\ last.op = "close"
    /\ has_request
    /\ proxied
    /\ auto_open = 0
    /\ ~real.sock

---------------------------------------------------------------------------
(* C16 *)

\* C16: the connection holds at most one in-progress request (the one
\* _vcr_request attribute), and only request() and putrequest() clear or
\* replace it: every other call leaves it in place with its method and URI,
\* and connect, getresponse (replaying, recording or failing), close and
\* set_tunnel leave its method, URI, headers and body unchanged.
C16_SingleRequest ==
    [][/\ has_request => has_request'
       /\ last'.op \notin {"request", "putrequest"} =>
             /\ has_request' = has_request
             /\ vcr_request'.method = vcr_request.method
             /\ vcr_request'.uri = vcr_request.uri
       /\ last'.op \in {"connect", "getresponse", "close", "set_tunnel"} =>
             vcr_request' = vcr_request]_vars

\* A recorded exchange that left a request with a header and a two-chunk
\* body in place.
C16_Witness ==
    /\ last.op = "getresponse"
    /\ last.out.kind = "return"
    /\ Len(last.events) = 3
    /\ has_request
    /\ vcr_request.body = <<"a", "b">>
    /\ HasKey(vcr_request.headers, Accept)

---------------------------------------------------------------------------
(* C17 *)

\* The entries of a header mapping, whatever their order.
Entries(d) == {d[i] : i \in DOMAIN d}

\* C17: when a request() is followed by a getresponse() on the record path,
\* the headers the real connection receives are the headers the caller
\* gave, the Header Transform undone (proxy-authorization present,
\* proxy-connection under its own name), while the request handed to the
\* cassette holds the transformed headers.
C17_HeadersUndone ==
    [][(/\ last.op = "request"
        /\ last.out.kind = "return"
        /\ last'.op = "getresponse"
        /\ last'.events # <<>>
        /\ last'.events[1].call = "request")
       => /\ Entries(last'.events[1].headers) = Entries(last.args.headers)
          /\ Len(last'.events) = 3 =>
                last'.events[3].request.headers
                   = transform_proxy_headers(last.args.headers)]_vars

---------------------------------------------------------------------------
(* C18 *)

\* C18: when a request() or putrequest() whose URI resolution did not fault
\* is followed by a getresponse() on the record path, the real connection is
\* sent exactly the path the caller passed, whatever the protocol, the
\* proxy-awareness flag, the tunnel target and the real host and port.
C18_RoundTrip ==
    [][(/\ last.op \in {"request", "putrequest"}
        /\ last.out.kind = "return"
        /\ last'.op = "getresponse"
        /\ last'.events # <<>>
        /\ last'.events[1].call = "request")
       => last'.events[1].url = last.args.url]_vars

---------------------------------------------------------------------------
(* C19 *)

\* The last call was a getresponse() during which the real connection's
\* request or getresponse raised.
Faulted == last.op = "getresponse" /\ last.args.fault # "none"

\* C19: when the real connection's request or getresponse raises during
\* getresponse(), that fault reaches the caller as it is, the real
\* connection has received one request and no second one, append is not
\* called and the in-progress request is unchanged; a close() that follows
\* still closes the real connection.
C19_FaultPassesThrough ==
    /\ [](Faulted =>
            /\ last.out = Raise("TransportFault")
            /\ CallsOf({"request"}) = {1}
            /\ Cardinality(CallsOf({"getresponse"})) <= 1
            /\ CallsOf({"append"}) = {})
    /\ [][/\ (last'.op = "getresponse" /\ last'.args.fault # "none") =>
                (vcr_request' = vcr_request /\ has_request' = has_request)
          /\ (Faulted /\ last'.op = "close") =>
                (last'.events = <<RealCall("close")>> /\ ~real'.sock)]_vars

\* A fault of the real connection's getresponse, on a request with a
\* two-chunk body.
C19_Witness ==
    /\ Faulted
    /\ last.args.fault = "getresponse"
    /\ last.events = <<RealRequestCall, RealCall("getresponse")>>
    /\ vcr_request.body = <<"a", "b">>

---------------------------------------------------------------------------
(* C20 *)

\* The call being made is a getresponse() that completes the record path.
CompletesRecordPath ==
    /\ last'.op = "getresponse"
    /\ last'.out.kind = "return"
    /\ Len(last'.events) = 3
    /\ last'.events[3].call = "append"

\* C20 as stated: getresponse() sets auto_open to 0, on the proxy and
\* through the attribute mirroring on the real connection, exactly when it
\* completes the record path on a proxy-aware connection; replaying, the
\* cannot-record fault and any getresponse() on a connection that is not
\* proxy-aware leave auto_open as it was.
C20_ExactlyOnCompletion ==
    [][last'.op = "getresponse" =>
         IF proxied /\ CompletesRecordPath
         THEN auto_open' = 0 /\ real'.auto_open = 0
         ELSE auto_open' = auto_open /\ real'.auto_open = real.auto_open]_vars

\* The call being made is a getresponse() in which the real connection's
\* getresponse has returned.
LiveResponseObtained ==
    /\ last'.op = "getresponse"
    /\ last'.args.fault \in {"none", "read"}
    /\ Len(last'.events) >= 2
    /\ last'.events[2].call = "getresponse"

\* C20 as amended: getresponse() sets auto_open to 0 on both connections
\* exactly when, on a proxy-aware connection, the real connection's
\* getresponse has returned, whether or not the read of the body and the
\* append then complete; every other getresponse() leaves auto_open as it
\* was.
C20_AutoOpen ==
    [][last'.op = "getresponse" =>
         IF proxied /\ LiveResponseObtained
         THEN auto_open' = 0 /\ real'.auto_open = 0
         ELSE auto_open' = auto_open /\ real'.auto_open = real.auto_open]_vars

\* A live exchange completed through a tunnel, with auto_open cleared on
\* both connections.
C20_Witness ==
    /\ last.op = "getresponse"
    /\ last.out.kind = "return"
    /\ Len(last.events) = 3
    /\ proxied
    /\ proxied_host = ExampleCom
    /\ auto_open = 0
    /\ real.auto_open = 0

============================================================================
